---- MODULE Spec2Model ----
(***************************************************************************)
(* A model of the shoreline_s_wrapper package.                             *)
(*                                                                         *)
(*   Spec / SpecSeq : one call of run_shoreline_simulation in a process,   *)
(*                    with the MATLABSession it may own, the process's     *)
(*                    SIGINT/SIGTERM handler table and (Spec only) signal  *)
(*                    delivery between any two statements.                 *)
(*   SpecConvert    : config_to_matlab_struct on bounded configurations.   *)
(*   SpecTable      : make_time_indexed_coastline_df on bounded arrays.    *)
(***************************************************************************)
EXTENDS Integers, Sequences, FiniteSets, TLC

\* ------------------------------------------------------------------ bounds
MaxSignals == 1

\* --------------------------------------------------------------- constants
None == "None"
SIGINT == "SIGINT"
SIGTERM == "SIGTERM"
Signals == {SIGINT, SIGTERM}

\* Handler table values: the two OS dispositions, a Python callable installed
\* by the embedding program (CPython installs default_int_handler for SIGINT),
\* and the closure MATLABSession installs.
SIG_DFL == "SIG_DFL"
SIG_IGN == "SIG_IGN"
PyHandler == "py_callable"
graceful_shutdown == "graceful_shutdown"
OriginalHandlers == {SIG_DFL, SIG_IGN, PyHandler}

\* Engine handles: the one a caller may supply, the one a session starts.
SuppliedEngine == "E0"
SessionEngine == "E1"
Engines == {SuppliedEngine, SessionEngine}

REQUIRED_FIELDS == <<"storageinterval">>
MetadataKeys == {"config_version", "description"}

RunnerKeys == {"storageinterval", "config_version"}
RunnerValues == {None, "date"}
RunnerMappings == UNION {[ks -> RunnerValues] : ks \in SUBSET RunnerKeys}
ConfigInputs ==
    {[kind |-> k, mapping |-> m] : k \in {"dict", "str"}, m \in RunnerMappings}
        \cup {[kind |-> "other", mapping |-> << >>]}

VARIABLES
    config_input,   \* argument of run_shoreline_simulation
    engArg,         \* its eng argument: None or SuppliedEngine
    config,         \* the loaded mapping (empty before loading)
    config_date_casted,
    stack,          \* Python frames: the main flow, then running signal handlers
    eng,            \* MATLABSession.eng
    origHandler,    \* MATLABSession._original_sig{int,term}_handler
    handler,        \* the process's signal handler table
    handler0,       \* the handler table when the call began
    engState,       \* per engine: "absent", "live", "quit"
    quitReq,        \* per engine: number of eng.quit() calls
    proc,           \* "running" or "killed" (default action of a signal)
    killedLive,     \* a default action happened while the session engine was live
    quitRaised,     \* an eng.quit() call raised an Exception
    signals,        \* signals delivered so far
    entered,        \* MATLABSession.__enter__ has returned
    nStart,         \* matlab.engine.start_matlab() calls
    nPaths,         \* initialize_matlab_paths calls
    nConvert,       \* config_to_matlab_struct calls
    nModel,         \* eng.ShorelineS calls
    \* config_to_matlab_struct
    conv_config,    \* its config argument, as the sequence of (key, value) items
    conv_i,         \* items of the for loop already processed
    ml_struct,      \* the struct being filled
    \* make_time_indexed_coastline_df
    coords_x,       \* coastline_coords_dict["x"], shape (group_size, timesteps)
    coords_y,       \* coastline_coords_dict["y"]
    time_vector,    \* its time_vector argument
    df_pc,          \* "check", "repeat", "frame", "returned", "raised"
    time_index,     \* np.repeat(time_vector, group_size)
    df              \* the rows of the DataFrame: [time, x, y]

sessionVars == <<config_input, engArg, config, config_date_casted, stack, eng,
                 origHandler, handler, handler0, engState, quitReq, proc,
                 killedLive, quitRaised, signals, entered, nStart, nPaths,
                 nConvert, nModel>>
convertVars == <<conv_config, conv_i, ml_struct>>
tableVars == <<coords_x, coords_y, time_vector, df_pc, time_index, df>>
vars == <<sessionVars, convertVars, tableVars>>

\* ----------------------------------------------------------- config loader

\* Mutant: the missing fields are logged but the function still returns True.
fields_present_always(cfg, required_fields) == TRUE

is_all_required_fields_present(cfg, required_fields) ==
    LET missing_fields ==
            SelectSeq(required_fields, LAMBDA f : f \notin DOMAIN cfg)
    IN  missing_fields = << >>

cast_config_datetime_obj_to_date_str(cfg) ==
    [key \in DOMAIN cfg |-> IF cfg[key] = "date" THEN "datestr" ELSE cfg[key]]

load_yaml_config(content) ==
    [key \in (DOMAIN content) \ MetadataKeys |-> content[key]]

\* ---------------------------------------------------------------- frames

Frame(fn, pc, sig) == [fn |-> fn, pc |-> pc, sig |-> sig, exc |-> "none"]
Top == stack[Len(stack)]
Main == stack[1]
SetTop(f) == [stack EXCEPT ![Len(stack)] = f]
TopAt(pc) == proc = "running" /\ Top.pc = pc

\* Mutant: a session is started whether or not a handle was supplied.
OwnsSessionAlways(e) == TRUE

\* if not eng: the runner owns a session exactly when no handle was supplied.
OwnsSession(e) == e = None

\* `if self._original_sigint_handler:`: Handlers.SIG_DFL is an IntEnum of
\* value 0 and None is None, both false; SIG_IGN (1) and callables are true.
Truthy(h) == h \notin {None, SIG_DFL}

\* Statements of quit() inside its try block: an exception there runs finally.
QuitTryPcs == {"quit_call", "quit_log"}
\* Statements of run_with_engine, inside the with block when a session is owned.
BodyPcs == {"init_paths", "convert", "shorelines"}

\* Exception e raised at the current statement of the top frame of stk.
RECURSIVE Raise(_, _)
Raise(stk, e) ==
    LET n == Len(stk)
        f == stk[n]
    IN  IF f.pc \in QuitTryPcs
        THEN [stk EXCEPT ![n] = [f EXCEPT !.pc = "quit_clear", !.exc = e]]
        ELSE IF f.fn = "handler"
        THEN Raise(SubSeq(stk, 1, n - 1), e)
        ELSE IF f.pc \in BodyPcs /\ OwnsSession(engArg)
        THEN [stk EXCEPT ![n] = [f EXCEPT !.pc = "quit_check", !.exc = e]]
        ELSE [stk EXCEPT ![n] = [f EXCEPT !.pc = "done", !.exc = e]]

\* quit() returns to its caller: __exit__ in the main flow, or graceful_shutdown.
ReturnFromQuit(stk) ==
    LET n == Len(stk)
        f == stk[n]
    IN  IF f.fn = "main"
        THEN [stk EXCEPT ![n] = [f EXCEPT !.pc = "done"]]
        ELSE IF f.exc # "none"
        THEN Raise(SubSeq(stk, 1, n - 1), f.exc)
        ELSE [stk EXCEPT ![n] = [f EXCEPT !.pc = "h_sigdfl"]]

is_active == eng # None

\* ------------------------------------------------------------------ Init

SessionInit ==
    /\ config_input \in ConfigInputs
    /\ engArg \in {None, SuppliedEngine}
    /\ config = << >>
    /\ config_date_casted = << >>
    /\ stack = <<Frame("main", "entry", "none")>>
    /\ eng = None
    /\ origHandler = [s \in Signals |-> None]
    /\ handler \in [Signals -> OriginalHandlers]
    /\ handler0 = handler
    /\ engState = [e \in Engines |->
                     IF e = SuppliedEngine /\ engArg # None THEN "live" ELSE "absent"]
    /\ quitReq = [e \in Engines |-> 0]
    /\ proc = "running"
    /\ killedLive = FALSE
    /\ quitRaised = FALSE
    /\ signals = 0
    /\ entered = FALSE
    /\ nStart = 0
    /\ nPaths = 0
    /\ nConvert = 0
    /\ nModel = 0

\* ------------------------------------------------- run_shoreline_simulation

\* Lines 58-65: dispatch on the type of config_input and load the mapping.
Entry ==
    /\ TopAt("entry")
    /\ \/ /\ config_input.kind = "str"
          /\ \/ /\ config' = load_yaml_config(config_input.mapping)
                /\ stack' = SetTop([Top EXCEPT !.pc = "cast"])
             \/ /\ stack' = Raise(stack, "OSError")      \* open() fails
                /\ UNCHANGED config
       \/ /\ config_input.kind = "dict"
          /\ config' = config_input.mapping              \* config_input.copy()
          /\ stack' = SetTop([Top EXCEPT !.pc = "cast"])
       \/ /\ config_input.kind = "other"
          /\ stack' = Raise(stack, "TypeError")
          /\ UNCHANGED config
    /\ UNCHANGED <<config_input, engArg, config_date_casted, eng, origHandler,
                   handler, handler0, engState, quitReq, proc, killedLive,
                   signals, entered, nStart, nPaths, nConvert, nModel, quitRaised>>
    /\ UNCHANGED <<convertVars, tableVars>>

\* Line 67.
Cast ==
    /\ TopAt("cast")
    /\ config_date_casted' = cast_config_datetime_obj_to_date_str(config)
    /\ stack' = SetTop([Top EXCEPT !.pc = "validate"])
    /\ UNCHANGED <<config_input, engArg, config, eng, origHandler, handler,
                   handler0, engState, quitReq, proc, killedLive, signals,
                   entered, nStart, nPaths, nConvert, nModel, quitRaised>>
    /\ UNCHANGED <<convertVars, tableVars>>

\* Lines 69-71.
Validate ==
    /\ TopAt("validate")
    /\ stack' = IF is_all_required_fields_present(config, REQUIRED_FIELDS)
                THEN SetTop([Top EXCEPT !.pc = "acquire"])
                ELSE Raise(stack, "ValueError")
    /\ UNCHANGED <<config_input, engArg, config, config_date_casted, eng,
                   origHandler, handler, handler0, engState, quitReq, proc,
                   killedLive, signals, entered, nStart, nPaths, nConvert, nModel, quitRaised>>
    /\ UNCHANGED <<convertVars, tableVars>>

\* Lines 73-74 and 79: with a session of its own, or on the supplied handle.
Acquire ==
    /\ TopAt("acquire")
    /\ stack' = IF OwnsSession(engArg)
                THEN SetTop([Top EXCEPT !.pc = "start_matlab"])
                ELSE SetTop([Top EXCEPT !.pc = "init_paths"])
    /\ UNCHANGED <<config_input, engArg, config, config_date_casted, eng,
                   origHandler, handler, handler0, engState, quitReq, proc,
                   killedLive, signals, entered, nStart, nPaths, nConvert, nModel, quitRaised>>
    /\ UNCHANGED <<convertVars, tableVars>>

\* The engine run_with_engine talks to.
BodyEngine == IF OwnsSession(engArg) THEN SessionEngine ELSE engArg

\* run_with_engine line 44; the engine call may raise.
InitPaths ==
    /\ TopAt("init_paths")
    /\ nPaths' = nPaths + 1
    /\ \/ stack' = SetTop([Top EXCEPT !.pc = "convert"])
       \/ stack' = Raise(stack, "EngineError")
    /\ UNCHANGED <<config_input, engArg, config, config_date_casted, eng,
                   origHandler, handler, handler0, engState, quitReq, proc,
                   killedLive, signals, entered, nStart, nConvert, nModel, quitRaised>>
    /\ UNCHANGED <<convertVars, tableVars>>

\* run_with_engine line 45; the conversion may raise.
Convert ==
    /\ TopAt("convert")
    /\ nConvert' = nConvert + 1
    /\ \/ stack' = SetTop([Top EXCEPT !.pc = "shorelines"])
       \/ stack' = Raise(stack, "EngineError")
    /\ UNCHANGED <<config_input, engArg, config, config_date_casted, eng,
                   origHandler, handler, handler0, engState, quitReq, proc,
                   killedLive, signals, entered, nStart, nPaths, nModel, quitRaised>>
    /\ UNCHANGED <<convertVars, tableVars>>

\* run_with_engine lines 49-51 and the return at line 77 or 80: a return from
\* inside the with block runs __exit__ first.
CallShorelineS ==
    /\ TopAt("shorelines")
    /\ nModel' = nModel + 1
    /\ \/ stack' = SetTop([Top EXCEPT !.pc =
                       IF OwnsSession(engArg) THEN "quit_check" ELSE "done"])
       \/ stack' = Raise(stack, "EngineError")
    /\ UNCHANGED <<config_input, engArg, config, config_date_casted, eng,
                   origHandler, handler, handler0, engState, quitReq, proc,
                   killedLive, signals, entered, nStart, nPaths, nConvert, quitRaised>>
    /\ UNCHANGED <<convertVars, tableVars>>

\* ------------------------------------------------------------ MATLABSession

\* start() line 37: start_matlab() returns a live engine or raises.
StartMatlab ==
    /\ TopAt("start_matlab")
    /\ nStart' = nStart + 1
    /\ \/ /\ eng' = SessionEngine
          /\ engState' = [engState EXCEPT ![SessionEngine] = "live"]
          /\ stack' = SetTop([Top EXCEPT !.pc = "setup_int"])
       \/ /\ stack' = Raise(stack, "EngineError")
          /\ UNCHANGED <<eng, engState>>
    /\ UNCHANGED <<config_input, engArg, config, config_date_casted,
                   origHandler, handler, handler0, quitReq, proc, killedLive,
                   signals, entered, nPaths, nConvert, nModel, quitRaised>>
    /\ UNCHANGED <<convertVars, tableVars>>

\* _setup_signal_handlers line 68.
SetupInt ==
    /\ TopAt("setup_int")
    /\ origHandler' = [origHandler EXCEPT ![SIGINT] = handler[SIGINT]]
    /\ handler' = [handler EXCEPT ![SIGINT] = graceful_shutdown]
    /\ stack' = SetTop([Top EXCEPT !.pc = "setup_term"])
    /\ UNCHANGED <<config_input, engArg, config, config_date_casted, eng,
                   handler0, engState, quitReq, proc, killedLive, signals,
                   entered, nStart, nPaths, nConvert, nModel, quitRaised>>
    /\ UNCHANGED <<convertVars, tableVars>>

\* _setup_signal_handlers line 69, then start() and __enter__ return.
SetupTerm ==
    /\ TopAt("setup_term")
    /\ origHandler' = [origHandler EXCEPT ![SIGTERM] = handler[SIGTERM]]
    /\ handler' = [handler EXCEPT ![SIGTERM] = graceful_shutdown]
    /\ entered' = TRUE
    /\ stack' = SetTop([Top EXCEPT !.pc = "init_paths"])
    /\ UNCHANGED <<config_input, engArg, config, config_date_casted, eng,
                   handler0, engState, quitReq, proc, killedLive, signals,
                   nStart, nPaths, nConvert, nModel, quitRaised>>
    /\ UNCHANGED <<convertVars, tableVars>>

\* quit() line 47.
QuitCheck ==
    /\ TopAt("quit_check")
    /\ stack' = IF eng # None
                THEN SetTop([Top EXCEPT !.pc = "quit_call"])
                ELSE ReturnFromQuit(stack)
    /\ UNCHANGED <<config_input, engArg, config, config_date_casted, eng,
                   origHandler, handler, handler0, engState, quitReq, proc,
                   killedLive, signals, entered, nStart, nPaths, nConvert, nModel, quitRaised>>
    /\ UNCHANGED <<convertVars, tableVars>>

\* Mutant: try/finally without the except clause; the error leaves quit().
OnQuitErrorUncaught(f) == [f EXCEPT !.pc = "quit_clear", !.exc = "QuitError"]

\* The frame after eng.quit() raised an Exception: lines 52-53 catch and log it.
OnQuitError(f) == [f EXCEPT !.pc = "quit_clear"]

\* quit() line 50: the engine is asked to quit; the call returns or raises.
QuitCall ==
    /\ TopAt("quit_call")
    /\ quitReq' = [quitReq EXCEPT ![eng] = @ + 1]
    /\ engState' = [engState EXCEPT ![eng] = "quit"]
    /\ \/ /\ stack' = SetTop([Top EXCEPT !.pc = "quit_log"])
          /\ UNCHANGED quitRaised
       \/ /\ stack' = SetTop(OnQuitError(Top))
          /\ quitRaised' = TRUE
    /\ UNCHANGED <<config_input, engArg, config, config_date_casted, eng,
                   origHandler, handler, handler0, proc, killedLive, signals,
                   entered, nStart, nPaths, nConvert, nModel>>
    /\ UNCHANGED <<convertVars, tableVars>>

\* quit() line 51, the last statement of the try block.
QuitLog ==
    /\ TopAt("quit_log")
    /\ stack' = SetTop([Top EXCEPT !.pc = "quit_clear"])
    /\ UNCHANGED <<config_input, engArg, config, config_date_casted, eng,
                   origHandler, handler, handler0, engState, quitReq, proc,
                   killedLive, signals, entered, nStart, nPaths, nConvert, nModel, quitRaised>>
    /\ UNCHANGED <<convertVars, tableVars>>

\* quit() line 55.
QuitClear ==
    /\ TopAt("quit_clear")
    /\ eng' = None
    /\ stack' = SetTop([Top EXCEPT !.pc = "restore_int"])
    /\ UNCHANGED <<config_input, engArg, config, config_date_casted,
                   origHandler, handler, handler0, engState, quitReq, proc,
                   killedLive, signals, entered, nStart, nPaths, nConvert, nModel, quitRaised>>
    /\ UNCHANGED <<convertVars, tableVars>>

\* The handler table after `if original: signal.signal(sig, original)`.
Restored(h, sig) ==
    IF Truthy(origHandler[sig]) THEN [h EXCEPT ![sig] = origHandler[sig]] ELSE h

\* _restore_signal_handlers lines 73-74.
RestoreInt ==
    /\ TopAt("restore_int")
    /\ handler' = Restored(handler, SIGINT)
    /\ stack' = SetTop([Top EXCEPT !.pc = "restore_term"])
    /\ UNCHANGED <<config_input, engArg, config, config_date_casted, eng,
                   origHandler, handler0, engState, quitReq, proc, killedLive,
                   signals, entered, nStart, nPaths, nConvert, nModel, quitRaised>>
    /\ UNCHANGED <<convertVars, tableVars>>

\* _restore_signal_handlers lines 75-76, then quit() returns.
RestoreTerm ==
    /\ TopAt("restore_term")
    /\ handler' = Restored(handler, SIGTERM)
    /\ stack' = ReturnFromQuit(stack)
    /\ UNCHANGED <<config_input, engArg, config, config_date_casted, eng,
                   origHandler, handler0, engState, quitReq, proc, killedLive,
                   signals, entered, nStart, nPaths, nConvert, nModel, quitRaised>>
    /\ UNCHANGED <<convertVars, tableVars>>

\* -------------------------------------------------------------- signals

\* The default action of SIGINT and SIGTERM: the process terminates.
DefaultAction ==
    /\ proc' = "killed"
    /\ killedLive' = (killedLive \/ engState[SessionEngine] = "live")

\* graceful_shutdown line 62.
HandlerQuit ==
    /\ TopAt("h_quit")
    /\ stack' = SetTop([Top EXCEPT !.pc = "quit_check"])
    /\ UNCHANGED <<config_input, engArg, config, config_date_casted, eng,
                   origHandler, handler, handler0, engState, quitReq, proc,
                   killedLive, signals, entered, nStart, nPaths, nConvert, nModel, quitRaised>>
    /\ UNCHANGED <<convertVars, tableVars>>

\* graceful_shutdown line 64.
HandlerSigDfl ==
    /\ TopAt("h_sigdfl")
    /\ handler' = [handler EXCEPT ![Top.sig] = SIG_DFL]
    /\ stack' = SetTop([Top EXCEPT !.pc = "h_kill"])
    /\ UNCHANGED <<config_input, engArg, config, config_date_casted, eng,
                   origHandler, handler0, engState, quitReq, proc, killedLive,
                   signals, entered, nStart, nPaths, nConvert, nModel, quitRaised>>
    /\ UNCHANGED <<convertVars, tableVars>>

\* graceful_shutdown line 65: os.kill(os.getpid(), signum) under SIG_DFL.
HandlerKill ==
    /\ TopAt("h_kill")
    /\ handler[Top.sig] = SIG_DFL
    /\ DefaultAction
    /\ UNCHANGED <<config_input, engArg, config, config_date_casted, stack, eng,
                   origHandler, handler, handler0, engState, quitReq, signals,
                   entered, nStart, nPaths, nConvert, nModel, quitRaised>>
    /\ UNCHANGED <<convertVars, tableVars>>

\* The OS delivers sig before the current statement of the top frame.
Deliver(sig) ==
    /\ proc = "running"
    /\ Top.pc # "done"
    /\ signals < MaxSignals
    /\ signals' = signals + 1
    /\ \/ /\ handler[sig] = SIG_DFL
          /\ DefaultAction
          /\ UNCHANGED stack
       \/ /\ handler[sig] = SIG_IGN
          /\ UNCHANGED <<stack, proc, killedLive>>
       \/ /\ handler[sig] = graceful_shutdown
          /\ stack' = Append(stack, Frame("handler", "h_quit", sig))
          /\ UNCHANGED <<proc, killedLive>>
       \/ /\ handler[sig] = PyHandler                   \* the callable returns
          /\ UNCHANGED <<stack, proc, killedLive>>
       \/ /\ handler[sig] = PyHandler                   \* the callable raises
          /\ stack' = Raise(stack, "KeyboardInterrupt")
          /\ UNCHANGED <<proc, killedLive>>
    /\ UNCHANGED <<config_input, engArg, config, config_date_casted, eng,
                   origHandler, handler, handler0, engState, quitReq, entered,
                   nStart, nPaths, nConvert, nModel, quitRaised>>
    /\ UNCHANGED <<convertVars, tableVars>>


\* -------------------------------------------------- config_to_matlab_struct

MaxListLen == 2

\* Python values are [t, v]: a type tag and the value's characters or elements.
PyNone == [t |-> "none", v |-> << >>]
PyNum == [t |-> "num", v |-> <<"1">>]
PyStr(chars) == [t |-> "str", v |-> chars]
PyList(elems) == [t |-> "list", v |-> elems]

\* What the engine builds: eng.nan, eng.eval(s), matlab.double(l), eng.cellstr(l).
eng_nan == [t |-> "nan", v |-> << >>]
eng_eval(chars) == [t |-> "eval", v |-> chars]
matlab_double(elems) == [t |-> "double", v |-> elems]
eng_cellstr(elems) == [t |-> "cellstr", v |-> elems]

\* str.startswith, str.endswith, `c in s` and str.strip on character sequences.
startswith(s, c) == Len(s) > 0 /\ s[1] = c
endswith(s, c) == Len(s) > 0 /\ s[Len(s)] = c
contains(s, c) == \E i \in 1..Len(s) : s[i] = c
RECURSIVE lstrip(_)
lstrip(s) == IF startswith(s, " ") THEN lstrip(Tail(s)) ELSE s
RECURSIVE rstrip(_)
rstrip(s) == IF endswith(s, " ") THEN rstrip(SubSeq(s, 1, Len(s) - 1)) ELSE s
strip(s) == rstrip(lstrip(s))

looks_like_matlab_cell(s) ==
    LET t == strip(s)
    IN  startswith(t, "{") /\ endswith(t, "}") /\ contains(t, ",")

LDBplot == <<"L", "D", "B", "p", "l", "o", "t">>
is_known_str_type_list(k) == k \in {LDBplot}

\* ml_struct[key] = val
struct_set(ml, key, val) ==
    [k \in (DOMAIN ml) \cup {key} |-> IF k = key THEN val ELSE ml[k]]

\* [v if v is not None else eng.nan for v in value]
clean_list(elems) ==
    [i \in 1..Len(elems) |-> IF elems[i] # "None" THEN elems[i] ELSE "nan"]

\* Line 133-134: the struct after the None test of one iteration.
AfterNoneTest(ml, key, value) ==
    IF value = PyNone THEN struct_set(ml, key, eng_nan) ELSE ml

\* Lines 137-151: the if / elif / else chain that follows the None test.
AfterTypeChain(ml, key, value) ==
    IF value.t = "str" /\ looks_like_matlab_cell(value.v)
    THEN struct_set(ml, key, eng_eval(value.v))
    ELSE IF value.t = "list"
    THEN IF Len(value.v) = 0
         THEN struct_set(ml, key, matlab_double(<< >>))
         ELSE IF is_known_str_type_list(key)
         THEN struct_set(ml, key, eng_cellstr(value.v))
         ELSE struct_set(ml, key, matlab_double(clean_list(value.v)))
    ELSE struct_set(ml, key, value)

\* Lines 126-151: one iteration of the for loop.
ConvertItemResult(ml, key, value) ==
    IF startswith(key, "_")
    THEN ml
    ELSE AfterTypeChain(AfterNoneTest(ml, key, value), key, value)

ConvKeyOrder == <<<<"d", "t">>, <<"_", "m">>, LDBplot>>
ConvKeys == {ConvKeyOrder[i] : i \in 1..Len(ConvKeyOrder)}
ListElems == {"None", "1"}
ConvLists == UNION {[1..n -> ListElems] : n \in 0..MaxListLen}
ConvValues ==
    {PyNone, PyNum,
     PyStr(<<"a">>), PyStr(<<"{", "a", "}">>),
     PyStr(<<"{", "a", ",", "b", "}">>), PyStr(<<" ", "{", ",", "}", " ">>)}
        \cup {PyList(l) : l \in ConvLists}

\* The items of mapping m in insertion order.
ItemsOf(m) ==
    LET ks == SelectSeq(ConvKeyOrder, LAMBDA k : k \in DOMAIN m)
    IN  [i \in 1..Len(ks) |-> [key |-> ks[i], value |-> m[ks[i]]]]

ConvConfigs == {ItemsOf(m) : m \in UNION {[ks -> ConvValues] : ks \in SUBSET ConvKeys}}

ConvertIdle ==
    /\ conv_config = << >>
    /\ conv_i = 0
    /\ ml_struct = << >>

\* Line 124: ml_struct = eng.struct().
ConvertInit ==
    /\ conv_config \in ConvConfigs
    /\ conv_i = 0
    /\ ml_struct = << >>

ConvertItem ==
    /\ conv_i < Len(conv_config)
    /\ conv_i' = conv_i + 1
    /\ ml_struct' = ConvertItemResult(ml_struct, conv_config[conv_i + 1].key,
                                      conv_config[conv_i + 1].value)
    /\ UNCHANGED <<conv_config, sessionVars, tableVars>>

\* Line 153 is reached: the loop is over and ml_struct is returned.
ConvertReturned == conv_i = Len(conv_config)

\* ------------------------------------------- make_time_indexed_coastline_df

MaxPoints == 2
MaxSteps == 2

\* np.repeat(a, n): every element n times in a row.
np_repeat(a, n) == [i \in 1..(Len(a) * n) |-> a[((i - 1) \div n) + 1]]

\* ndarray.flatten() of a (rows, cols) array: row-major (C) order.
flatten(a) ==
    LET rows == Len(a)
        cols == IF rows = 0 THEN 0 ELSE Len(a[1])
    IN  [i \in 1..(rows * cols) |-> a[((i - 1) \div cols) + 1][((i - 1) % cols) + 1]]

\* Mutant: the length test is dropped.
length_mismatch_unchecked(tv, n) == FALSE

\* Line 150: len(time_vector) != timesteps.
length_mismatch(tv, timesteps) == Len(tv) # timesteps

\* Mutant: np.tile in place of np.repeat (the whole vector, n times over).
make_time_index_tiled(tv, n) == [i \in 1..(Len(tv) * n) |-> tv[((i - 1) % Len(tv)) + 1]]

\* Line 155.
make_time_index(tv, group_size) == np_repeat(tv, group_size)

\* Line 156: pd.DataFrame({"x": xs, "y": ys}, index=idx).
DataFrame(xs, ys, idx) ==
    [i \in 1..Len(xs) |-> [time |-> idx[i], x |-> xs[i], y |-> ys[i]]]

group_size == Len(coords_x)
timesteps == Len(coords_x[1])

\* Cell [p][t] of an array holds a value naming its own position.
Array(name, P, T) == [p \in 1..P |-> [t \in 1..T |-> <<name, p, t>>]]

\* Time vectors: distinct timestamps, of a length that may or may not fit.
Timestamps == 1..(MaxSteps + 1)
TimeVectors ==
    {tv \in UNION {[1..n -> Timestamps] : n \in 0..(MaxSteps + 1)} :
        \A i, j \in 1..Len(tv) : i # j => tv[i] # tv[j]}

TableIdle ==
    /\ coords_x = << >>
    /\ coords_y = << >>
    /\ time_vector = << >>
    /\ df_pc = "idle"
    /\ time_index = << >>
    /\ df = << >>

TableInit ==
    /\ \E P \in 1..MaxPoints, T \in 1..MaxSteps :
          /\ coords_x = Array("x", P, T)
          /\ coords_y = Array("y", P, T)
    /\ time_vector \in TimeVectors
    /\ df_pc = "check"
    /\ time_index = << >>
    /\ df = << >>

\* Lines 146-153.
CheckShape ==
    /\ df_pc = "check"
    /\ df_pc' = IF length_mismatch(time_vector, timesteps) THEN "raised" ELSE "repeat"
    /\ UNCHANGED <<coords_x, coords_y, time_vector, time_index, df>>
    /\ UNCHANGED <<sessionVars, convertVars>>

\* Line 155.
RepeatTimes ==
    /\ df_pc = "repeat"
    /\ time_index' = make_time_index(time_vector, group_size)
    /\ df_pc' = "frame"
    /\ UNCHANGED <<coords_x, coords_y, time_vector, df>>
    /\ UNCHANGED <<sessionVars, convertVars>>

\* Lines 156-158: pandas refuses an index whose length is not the columns'.
BuildFrame ==
    /\ df_pc = "frame"
    /\ IF Len(time_index) = Len(flatten(coords_x))
       THEN /\ df' = DataFrame(flatten(coords_x), flatten(coords_y), time_index)
            /\ df_pc' = "returned"
       ELSE /\ df_pc' = "raised"
            /\ UNCHANGED df
    /\ UNCHANGED <<coords_x, coords_y, time_vector, time_index>>
    /\ UNCHANGED <<sessionVars, convertVars>>

\* ----------------------------------------------------------------- claims

MainDone == proc = "running" /\ Main.pc = "done"
\* The with block of run_shoreline_simulation was entered and has been left.
ScopeLeft == entered /\ MainDone

\* C1: once the scope of a MATLABSession has been left (the body returned, the
\* body raised, or eng.quit() itself raised), the session is inactive, the engine
\* has been asked to quit, and the error of eng.quit() is not what leaves __exit__.
C1_ScopeExitInactive ==
    ScopeLeft =>
        /\ ~is_active
        /\ quitReq[SessionEngine] >= 1
        /\ engState[SessionEngine] = "quit"
        /\ Main.exc # "QuitError"

\* C1 witness: the body raised, eng.quit() raised too, and the scope was left.
C1_Witness == ScopeLeft /\ quitRaised /\ Main.exc = "EngineError"

\* C2: the process never takes the default action of SIGINT or SIGTERM while
\* the engine a MATLABSession started is still live (not yet asked to quit).
C2_ShutdownBeforeDefault == ~killedLive

\* C3: with no signal received, after the scope has been entered and left the
\* SIGINT and SIGTERM handlers are the ones installed before it was entered.
C3_HandlersRestored ==
    (ScopeLeft /\ signals = 0) => handler = handler0

\* A required field is missing from the loaded mapping.
LacksRequired(cfg) ==
    \E i \in 1..Len(REQUIRED_FIELDS) : REQUIRED_FIELDS[i] \notin DOMAIN cfg
\* The mapping has been loaded (lines 58-65 did not raise).
Loaded == Main.pc # "entry" /\ Main.exc \notin {"TypeError", "OSError"}

\* C4: validation is false exactly for the mappings that lack the required
\* field; for such a mapping the call starts no engine, initializes no paths,
\* converts nothing and never calls ShorelineS, and it ends with a ValueError,
\* with or without a supplied engine handle.
C4_MissingFieldRejected ==
    Loaded =>
        /\ is_all_required_fields_present(config, REQUIRED_FIELDS)
              <=> ~LacksRequired(config)
        /\ LacksRequired(config) =>
              /\ nStart = 0 /\ nPaths = 0 /\ nConvert = 0 /\ nModel = 0
              /\ eng = None
              /\ Main.pc \in {"cast", "validate", "done"}
              /\ Main.pc = "done" => Main.exc = "ValueError"

\* C4 witness: a mapping without the field, a supplied handle, ValueError raised.
C4_Witness ==
    /\ MainDone /\ Loaded /\ LacksRequired(config)
    /\ engArg = SuppliedEngine /\ Main.exc = "ValueError"

C6_NoneBecomesNaN ==
    ConvertReturned =>
        /\ \A i \in 1..Len(conv_config) :
              (~startswith(conv_config[i].key, "_") /\ conv_config[i].value = PyNone)
                  => /\ conv_config[i].key \in DOMAIN ml_struct
                     /\ ml_struct[conv_config[i].key] = eng_nan
        /\ \A k \in DOMAIN ml_struct : ~startswith(k, "_")

\* The place of timestamp v in time_vector.
AxisPos(v) == CHOOSE k \in 1..Len(time_vector) : time_vector[k] = v

\* C7: for arrays of shape (P, T) and a time vector of length T the table has
\* P*T rows, each timestamp is the time of exactly P rows, and the row times
\* follow the order of the time vector.
C7_RowCountAndTimes ==
    df_pc = "returned" =>
        /\ Len(df) = group_size * timesteps
        /\ \A k \in 1..Len(time_vector) :
              Cardinality({i \in 1..Len(df) : df[i].time = time_vector[k]}) = group_size
        /\ \A i, j \in 1..Len(df) :
              i < j => AxisPos(df[i].time) <= AxisPos(df[j].time)

\* C7 witness: a table was built from 2 points and 2 timesteps.
C7_Witness == df_pc = "returned" /\ group_size = 2 /\ timesteps = 2

\* C8: a time vector whose length is not T ends the call with a ValueError
\* before any row time or row is built.
C8_MismatchRaises ==
    (df_pc \notin {"idle", "check"} /\ Len(time_vector) # timesteps) =>
        /\ df_pc = "raised"
        /\ time_index = << >>
        /\ df = << >>

\* C8 witness: the call raised on a time vector one longer than T.
C8_Witness == df_pc = "raised" /\ Len(time_vector) = timesteps + 1

\* C9: for every point p and timestep t exactly one row holds x[p][t] and
\* y[p][t], and the time of that row is time_vector[t].
C9_RowsConsistent ==
    df_pc = "returned" =>
        \A p \in 1..group_size, t \in 1..timesteps :
            LET rows == {i \in 1..Len(df) :
                            df[i].x = coords_x[p][t] /\ df[i].y = coords_y[p][t]}
            IN  /\ Cardinality(rows) = 1
                /\ \A i \in rows : df[i].time = time_vector[t]

\* C10: no engine started by a MATLABSession is asked to quit more than once,
\* whatever the interleaving of quit() with signal delivery.
C10_QuitAtMostOnce == quitReq[SessionEngine] <= 1

\* ------------------------------------------------------- specifications

\* A process in which run_shoreline_simulation is not running.
SessionIdle ==
    /\ config_input = [kind |-> "dict", mapping |-> << >>]
    /\ engArg = None
    /\ config = << >>
    /\ config_date_casted = << >>
    /\ stack = <<Frame("main", "done", "none")>>
    /\ eng = None
    /\ origHandler = [s \in Signals |-> None]
    /\ handler = [s \in Signals |-> SIG_DFL]
    /\ handler0 = handler
    /\ engState = [e \in Engines |-> "absent"]
    /\ quitReq = [e \in Engines |-> 0]
    /\ proc = "running"
    /\ killedLive = FALSE
    /\ quitRaised = FALSE
    /\ signals = 0
    /\ entered = FALSE
    /\ nStart = 0
    /\ nPaths = 0
    /\ nConvert = 0
    /\ nModel = 0

Init == SessionInit /\ ConvertIdle /\ TableIdle

NextSeq ==
    \/ Entry \/ Cast \/ Validate \/ Acquire
    \/ StartMatlab \/ SetupInt \/ SetupTerm
    \/ InitPaths \/ Convert \/ CallShorelineS
    \/ QuitCheck \/ QuitCall \/ QuitLog \/ QuitClear \/ RestoreInt \/ RestoreTerm

Next ==
    \/ NextSeq
    \/ HandlerQuit \/ HandlerSigDfl \/ HandlerKill
    \/ \E sig \in Signals : Deliver(sig)

\* One call in a process that may receive signals at any statement.
Spec == Init /\ [][Next]_vars

\* The same call in a process that receives no signal.
SpecSeq == Init /\ [][NextSeq]_vars

\* One call of config_to_matlab_struct.
InitConvert == SessionIdle /\ ConvertInit /\ TableIdle
NextConvert == ConvertItem
SpecConvert == InitConvert /\ [][NextConvert]_vars

\* One call of make_time_indexed_coastline_df.
InitTable == SessionIdle /\ ConvertIdle /\ TableInit
NextTable == CheckShape \/ RepeatTimes \/ BuildFrame
SpecTable == InitTable /\ [][NextTable]_vars

====
